---- MODULE Spec2Model ----
(***************************************************************************)
(* Model of Assignment3/integrator_analysis_helper_functions.py.           *)
(*                                                                         *)
(* The module is a script: Python executes the module-level statements     *)
(* (lines 24-46) when it is imported, and afterwards its functions can be  *)
(* called.  A behaviour of this model is one import followed by one call   *)
(* of one of the module's functions, executed statement by statement.      *)
(*                                                                         *)
(* Python values are modelled as follows.                                  *)
(*   - a number, the Ellipsis object (the value of `...`) and the outcome  *)
(*     of an arithmetic expression that raised TypeError are records       *)
(*     [t, v] (PyInt, Ellipsis, TypeError);                                *)
(*   - an epoch (a float) is an integer, a state vector (a numpy array,    *)
(*     subtracted element-wise) is an integer, i.e. a one-component vector;*)
(*   - a dict is the sequence of its <<key, value>> items in insertion     *)
(*     order, with distinct keys; dict objects live in `heap`, addressed   *)
(*     by reference, so that aliasing is visible;                          *)
(*   - a string that is built by concatenation is the sequence of its      *)
(*     pieces, and concatenation is \o.                                    *)
(* The tudatpy library is not part of the repository.  Its functions are   *)
(* stand-ins: each is a fixed function of its arguments that may also      *)
(* raise, which the calling action chooses nondeterministically.           *)
(***************************************************************************)
EXTENDS Integers, Sequences, FiniteSets, TLC

\* ------------------------------------------------------------------ bounds

\* The longest state history that is drawn.
MaxLen == 2
\* Epochs are drawn from 0..MaxEpoch.
MaxEpoch == 2
\* State vector components are drawn from 0..MaxCoord.
MaxCoord == 1

Epochs == 0..MaxEpoch
Coordinates == 0..MaxCoord

\* ------------------------------------------------------------ Python values

PyInt(n) == [t |-> "int", v |-> n, r |-> ""]
Ellipsis == [t |-> "Ellipsis", v |-> 0, r |-> ""]
TypeError == [t |-> "TypeError", v |-> 0, r |-> ""]
None == [t |-> "None", v |-> 0, r |-> ""]
DictRef(ref) == [t |-> "dict", v |-> 0, r |-> ref]
\* What a filled-in `acceleration_models = ...` would hold.
AccelerationModels == [t |-> "acceleration_models", v |-> 0, r |-> ""]

IsNumber(x) == x.t = "int"

\* Mutant of PyMul: Ellipsis counts as 0 instead of raising.
PyMulLenient(x, y) ==
    PyInt((IF IsNumber(x) THEN x.v ELSE 0) * (IF IsNumber(y) THEN y.v ELSE 0))

\* x * y of two Python values: Ellipsis supports no arithmetic, so the
\* product raises TypeError, and an operand that already raised propagates.
PyMul(x, y) ==
    IF IsNumber(x) /\ IsNumber(y) THEN PyInt(x.v * y.v) ELSE TypeError

PyAdd(x, y) ==
    IF IsNumber(x) /\ IsNumber(y) THEN PyInt(x.v + y.v) ELSE TypeError

PyDiv(x, y) ==
    IF IsNumber(x) /\ IsNumber(y) THEN PyInt(x.v \div y.v) ELSE TypeError

\* ------------------------------------------------------------------- dicts

\* The histories that are drawn: items in insertion order, keys distinct.
Items == Epochs \X Coordinates

RECURSIVE SeqsUpTo(_, _)
SeqsUpTo(S, n) ==
    IF n = 0 THEN {<<>>}
    ELSE LET shorter == SeqsUpTo(S, n - 1)
         IN shorter \cup {Append(s, x) : s \in {q \in shorter : Len(q) = n - 1}, x \in S}

DistinctKeys(d) == \A i, j \in 1..Len(d) : d[i][1] = d[j][1] => i = j

StateHistories == {d \in SeqsUpTo(Items, MaxLen) : DistinctKeys(d)}

\* list(d.keys()), list(d.values()), len(d), k in d, d[k]
Keys(d) == [i \in 1..Len(d) |-> d[i][1]]
Values(d) == [i \in 1..Len(d) |-> d[i][2]]
HasKey(d, k) == \E i \in 1..Len(d) : d[i][1] = k
Get(d, k) == d[CHOOSE i \in 1..Len(d) : d[i][1] = k][2]

\* d[k] = v: an existing key keeps its position, a new key is appended.
SetItem(d, k, v) ==
    IF HasKey(d, k)
    THEN [i \in 1..Len(d) |-> IF d[i][1] = k THEN <<k, v>> ELSE d[i]]
    ELSE Append(d, <<k, v>>)

\* --------------------------------------------------- the library's functions

\* element_conversion.cartesian_to_keplerian: Keplerian elements are the pair
\* <<shape, anomaly>>; the anomaly of the converted state is 0.
cartesian_to_keplerian(cartesian, mu) == <<cartesian + mu, 0>>

\* two_body_dynamics.propagate_kepler_orbit: the shape is kept, the anomaly
\* advances with the elapsed time.
propagate_kepler_orbit(kepler, dt, mu) == <<kepler[1], kepler[2] + mu * dt>>

\* element_conversion.keplerian_to_cartesian: inverse of the conversion above
\* at anomaly 0.
keplerian_to_cartesian(kepler, mu) == kepler[1] - mu + kepler[2]

GravitationalParameters == {1, 2}

\* ------------------------------------------------------------ file names

output_directory == <<"./", "SimulationOutput/">>

Ids == {"flyby", "orbit"}

FileKinds ==
    {"numerical_states", "keplerian_difference", "benchmark_difference",
     "dependent_variables"}

Suffix(kind) ==
    CASE kind = "numerical_states" -> "_numerical_states.dat"
      [] kind = "keplerian_difference" -> "_keplerian_difference.dat"
      [] kind = "benchmark_difference" -> "_benchmark_difference.dat"
      [] kind = "dependent_variables" -> "_dependent_variables.dat"

\* The file save2txt(solution, filename, directory) opens is
\* os.path.join(directory, filename); every directory argument of this module
\* ends in "/", and "./" pieces do not change the file that is meant.
JoinPath(directory, filename) == directory \o filename
NormalisePath(path) == SelectSeq(path, LAMBDA piece : piece # "./")

\* The file `<id>_<suffix>.dat` in the output directory.
OutputFile(id, kind) == NormalisePath(output_directory \o <<id, Suffix(kind)>>)

\* What the output directory may hold before the call: nothing, or a file
\* left by an earlier run.
InitialDisks == {{}, {OutputFile("earlier", "numerical_states")}}

\* --------------------------------------------------------------- functions

KEPLER_DIFFERENCE == "get_difference_wrt_kepler_orbit"
BENCHMARK_DIFFERENCE == "get_difference_wrt_benchmarks"
WRITE_ANALYTICAL == "write_propagation_results_and_analytical_difference_to_file"
WRITE_BENCHMARK == "write_propagation_results_and_benchmark_difference_to_file"
WRITE_RESULTS == "write_propagation_results_to_file"
UNPERTURBED == "get_unperturbed_accelerations"
PERTURBED == "get_perturbed_accelerations"

Writers == {WRITE_ANALYTICAL, WRITE_BENCHMARK, WRITE_RESULTS}
AnalysisWriters == {WRITE_ANALYTICAL, WRITE_BENCHMARK}
AccelerationFunctions == {UNPERTURBED, PERTURBED}

\* Mutant of WriterSteps: the difference file is saved before the states.
WriterStepsSavesSwapped(writer) ==
    CASE writer = WRITE_ANALYTICAL ->
           <<"difference", "keplerian_difference", "numerical_states",
             "dependent_variables">>
      [] writer = WRITE_BENCHMARK ->
           <<"difference", "benchmark_difference", "numerical_states",
             "dependent_variables">>
      [] writer = WRITE_RESULTS ->
           <<"dependent_variables", "numerical_states">>

\* Mutant of WriterSteps: the difference is computed after the first save.
WriterStepsDifferenceLate(writer) ==
    CASE writer = WRITE_ANALYTICAL ->
           <<"numerical_states", "difference", "keplerian_difference",
             "dependent_variables">>
      [] writer = WRITE_BENCHMARK ->
           <<"numerical_states", "difference", "benchmark_difference",
             "dependent_variables">>
      [] writer = WRITE_RESULTS ->
           <<"numerical_states", "dependent_variables">>

\* The statements of each writer in program order: "difference" is the call
\* of the difference function, every other step a save2txt call of that file.
WriterSteps(writer) ==
    CASE writer = WRITE_ANALYTICAL ->
           <<"difference", "numerical_states", "keplerian_difference",
             "dependent_variables">>
      [] writer = WRITE_BENCHMARK ->
           <<"difference", "numerical_states", "benchmark_difference",
             "dependent_variables">>
      [] writer = WRITE_RESULTS ->
           <<"numerical_states", "dependent_variables">>

\* The filename and directory arguments of the save2txt call for `kind`.
SaveArguments(writer, id, kind) ==
    IF writer = WRITE_ANALYTICAL
    THEN [filename |-> output_directory \o <<id>> \o <<Suffix(kind)>>,
          directory |-> <<"./">>]
    ELSE [filename |-> <<id>> \o <<Suffix(kind)>>,
          directory |-> output_directory]

\* Mutant of HasDependentVariables: the file is written unconditionally.
HasDependentVariablesAlways(dependent_variables) ==
    Len(Keys(dependent_variables)) >= 0

\* if len(dependent_variables.keys()) > 0
HasDependentVariables(dependent_variables) == Len(Keys(dependent_variables)) > 0

\* Mutant of KeplerDifference: the operands are exchanged.
KeplerDifferenceReversed(propagated_cartesian_state, state) ==
    state - propagated_cartesian_state

\* propagated_cartesian_state - state_history[epoch]
KeplerDifference(propagated_cartesian_state, state) ==
    propagated_cartesian_state - state

\* Mutant of BenchmarkDifference: the operands are exchanged.
BenchmarkDifferenceReversed(state, interpolated) == interpolated - state

\* state_history[epoch] - benchmark_interpolator.interpolate(epoch)
BenchmarkDifference(state, interpolated) == state - interpolated

\* Mutant of NewDict: the result is built in the state history itself.
AliasedDict == "state_history"

\* dict(): a new, empty dict object, distinct from every other object.
NewDict == "difference"

\* ------------------------------------------------------ module-level values

JULIAN_DAY == 86400
\* 35.4 * constants.JULIAN_YEAR, with JULIAN_YEAR = 365.25 * JULIAN_DAY
JulianYears35_4 == 1117139040

DependentVariableHistories == {<<>>, <<<<0, 1>>>>}

\* ------------------------------------------------------------------- state

VARIABLES
    \* module-level names (lines 25-42); None while a name is not yet bound
    flyby_initial_time, A, B, C, orbit_initial_time, initial_times_per_phase,
    \* the files that exist in the output directory, and those that existed
    \* when the call began
    disk, disk_before,
    \* the function that was called and the position in it
    fn, pc, step,
    \* its arguments
    file_output_identifier, central_body_gravitational_parameter,
    \* the dict objects, by reference, and the state history as it was passed
    heap, input_state_history,
    \* locals of the difference functions ("" while unbound)
    initial_keplerian_elements, initial_time, epoch_index,
    keplerian_solution_difference, benchmark_difference,
    \* local of the acceleration functions
    acceleration_models,
    \* the library calls made: the elapsed times handed to
    \* propagate_kepler_orbit, the <<epoch, result>> of every interpolate
    \* call, the save2txt calls
    propagations, queries, saved,
    \* how the call ended
    retval, exception

vars ==
    <<flyby_initial_time, A, B, C, orbit_initial_time, initial_times_per_phase,
      disk, disk_before, fn, pc, step, file_output_identifier,
      central_body_gravitational_parameter, heap, input_state_history,
      initial_keplerian_elements, initial_time, epoch_index,
      keplerian_solution_difference, benchmark_difference,
      acceleration_models, propagations, queries, saved, retval, exception>>

moduleVars ==
    <<flyby_initial_time, A, B, C, orbit_initial_time, initial_times_per_phase>>
argVars ==
    <<fn, file_output_identifier, central_body_gravitational_parameter,
      input_state_history, disk_before>>
keplerVars == <<initial_keplerian_elements, initial_time, propagations>>

EmptyHeap ==
    [ref \in {"state_history", "dependent_variable_history", "difference"} |-> <<>>]

\* The template as a student has it: each placeholder is either still `...`
\* or filled in (A, B, C with the digits of the example student number of
\* line 27).
Init ==
    /\ flyby_initial_time \in {Ellipsis, PyInt(0)}
    /\ A \in {Ellipsis, PyInt(7)}
    /\ B \in {Ellipsis, PyInt(7)}
    /\ C \in {Ellipsis, PyInt(9)}
    /\ orbit_initial_time = None
    /\ initial_times_per_phase = <<>>
    /\ disk \in InitialDisks
    /\ disk_before = disk
    /\ fn = ""
    /\ pc = "import"
    /\ step = 0
    /\ file_output_identifier = ""
    /\ central_body_gravitational_parameter = 0
    /\ heap = EmptyHeap
    /\ input_state_history = <<>>
    /\ initial_keplerian_elements = <<>>
    /\ initial_time = 0
    /\ epoch_index = 0
    /\ keplerian_solution_difference = ""
    /\ benchmark_difference = ""
    /\ acceleration_models = None
    /\ propagations = <<>>
    /\ queries = <<>>
    /\ saved = <<>>
    /\ retval = None
    /\ exception = ""

\* ------------------------------------------------------------ module import

\* Lines 32-37.
OrbitInitialTime(a, b, c) ==
    PyAdd(PyAdd(PyAdd(PyInt(JulianYears35_4),
                      PyMul(PyMul(a, PyInt(7)), PyInt(JULIAN_DAY))),
                PyMul(b, PyInt(JULIAN_DAY))),
          PyDiv(PyMul(c, PyInt(JULIAN_DAY)), PyInt(24)))

\* Lines 25-46: the module-level statements.  The expression of lines 32-37
\* raises TypeError when an operand is Ellipsis, and the import ends there.
ImportModule ==
    /\ pc = "import"
    /\ LET t == OrbitInitialTime(A, B, C)
       IN IF t = TypeError
          THEN /\ pc' = "import_failed"
               /\ exception' = "TypeError"
               /\ UNCHANGED <<orbit_initial_time, initial_times_per_phase>>
          ELSE /\ pc' = "ready"
               /\ orbit_initial_time' = t
               /\ initial_times_per_phase' = <<flyby_initial_time, t>>
               /\ UNCHANGED exception
    /\ UNCHANGED <<flyby_initial_time, A, B, C, disk, disk_before, fn, step,
                   file_output_identifier, central_body_gravitational_parameter,
                   heap, input_state_history, initial_keplerian_elements,
                   initial_time, epoch_index, keplerian_solution_difference,
                   benchmark_difference, acceleration_models, propagations,
                   queries, saved, retval>>

\* ------------------------------------------------------------------- calls

\* A caller calls `f` with a dynamics simulator (or a state history).
Enter(f, history, dependent, id, mu, first) ==
    /\ fn' = f
    /\ pc' = first
    /\ step' = 1
    /\ file_output_identifier' = id
    /\ central_body_gravitational_parameter' = mu
    /\ heap' = [EmptyHeap EXCEPT !["state_history"] = history,
                                 !["dependent_variable_history"] = dependent]
    /\ input_state_history' = history
    /\ disk_before' = disk
    /\ UNCHANGED <<moduleVars, disk, initial_keplerian_elements, initial_time,
                   epoch_index, keplerian_solution_difference,
                   benchmark_difference, acceleration_models, propagations,
                   queries, saved, retval, exception>>

CallKeplerDifference ==
    /\ pc = "ready"
    /\ \E history \in StateHistories, mu \in GravitationalParameters :
        Enter(KEPLER_DIFFERENCE, history, <<>>, "", mu, "kepler_setup")

CallBenchmarkDifference ==
    /\ pc = "ready"
    /\ \E history \in StateHistories :
        Enter(BENCHMARK_DIFFERENCE, history, <<>>, "", 0, "benchmark_setup")

CallWriteAnalytical ==
    /\ pc = "ready"
    /\ \E history \in StateHistories, dependent \in DependentVariableHistories,
       id \in Ids, mu \in GravitationalParameters :
        Enter(WRITE_ANALYTICAL, history, dependent, id, mu, "writer")

CallWriteBenchmark ==
    /\ pc = "ready"
    /\ \E history \in StateHistories, dependent \in DependentVariableHistories,
       id \in Ids :
        Enter(WRITE_BENCHMARK, history, dependent, id, 0, "writer")

CallWriteResults ==
    /\ pc = "ready"
    /\ \E history \in StateHistories, dependent \in DependentVariableHistories,
       id \in Ids :
        Enter(WRITE_RESULTS, history, dependent, id, 0, "writer")

CallAccelerations ==
    /\ pc = "ready"
    /\ \E f \in AccelerationFunctions :
        Enter(f, <<>>, <<>>, "", 0, "accelerations")

\* An exception leaves the function; no function of the module handles one,
\* so it leaves the writer that called a difference function as well.
Raise(e) ==
    /\ pc' = "raised"
    /\ exception' = e
    /\ UNCHANGED retval

Return(value) ==
    /\ pc' = "returned"
    /\ retval' = value
    /\ UNCHANGED exception

\* --------------------------------------------- get_difference_wrt_kepler_orbit

\* Lines 102-109.  list(state_history.values())[0] raises IndexError on an
\* empty history; the library's conversion may raise.
KeplerSetup ==
    /\ pc = "kepler_setup"
    /\ LET state_history == heap["state_history"]
       IN \/ /\ Len(state_history) = 0
             /\ Raise("IndexError")
             /\ UNCHANGED <<heap, initial_keplerian_elements, initial_time,
                            epoch_index, keplerian_solution_difference>>
          \/ /\ Len(state_history) > 0
             /\ Raise("LibraryError")
             /\ UNCHANGED <<heap, initial_keplerian_elements, initial_time,
                            epoch_index, keplerian_solution_difference>>
          \/ /\ Len(state_history) > 0
             /\ initial_keplerian_elements' =
                    cartesian_to_keplerian(Values(state_history)[1],
                                           central_body_gravitational_parameter)
             /\ initial_time' = Keys(state_history)[1]
             /\ keplerian_solution_difference' = NewDict
             /\ heap' = [heap EXCEPT ![NewDict] = <<>>]
             /\ epoch_index' = 1
             /\ pc' = "kepler_loop"
             /\ UNCHANGED <<retval, exception>>
    /\ UNCHANGED <<moduleVars, argVars, disk, step, benchmark_difference,
                   acceleration_models, propagations, queries, saved>>

\* Lines 110-127, one epoch of the loop.
KeplerIterate ==
    /\ pc = "kepler_loop"
    /\ epoch_index <= Len(heap["state_history"])
    /\ LET state_history == heap["state_history"]
           mu == central_body_gravitational_parameter
           epoch == Keys(state_history)[epoch_index]
           propagated_kepler_state ==
               propagate_kepler_orbit(initial_keplerian_elements,
                                      epoch - initial_time, mu)
           propagated_cartesian_state ==
               keplerian_to_cartesian(propagated_kepler_state, mu)
       IN /\ propagations' = Append(propagations, epoch - initial_time)
          /\ \/ /\ Raise("LibraryError")
                /\ UNCHANGED <<heap, epoch_index>>
             \/ /\ heap' = [heap EXCEPT ![keplerian_solution_difference] =
                               SetItem(@, epoch,
                                       KeplerDifference(propagated_cartesian_state,
                                                        Get(state_history, epoch)))]
                /\ epoch_index' = epoch_index + 1
                /\ UNCHANGED <<pc, retval, exception>>
    /\ UNCHANGED <<moduleVars, argVars, disk, step, initial_keplerian_elements,
                   initial_time, keplerian_solution_difference,
                   benchmark_difference, acceleration_models, queries, saved>>

\* Line 129; in a writer the result is bound at line 205 and the writer goes on.
KeplerReturn ==
    /\ pc = "kepler_loop"
    /\ epoch_index > Len(heap["state_history"])
    /\ IF fn \in Writers
       THEN /\ pc' = "writer"
            /\ step' = step + 1
            /\ UNCHANGED <<retval, exception>>
       ELSE /\ Return(DictRef(keplerian_solution_difference))
            /\ UNCHANGED step
    /\ UNCHANGED <<moduleVars, argVars, disk, heap, keplerVars, epoch_index,
                   keplerian_solution_difference, benchmark_difference,
                   acceleration_models, queries, saved>>

\* ----------------------------------------------- get_difference_wrt_benchmarks

\* Line 156.
BenchmarkSetup ==
    /\ pc = "benchmark_setup"
    /\ benchmark_difference' = NewDict
    /\ heap' = [heap EXCEPT ![NewDict] = <<>>]
    /\ epoch_index' = 1
    /\ pc' = "benchmark_loop"
    /\ UNCHANGED <<moduleVars, argVars, disk, step, keplerVars,
                   keplerian_solution_difference, acceleration_models, queries,
                   saved, retval, exception>>

\* Lines 157-160, one epoch of the loop.  The interpolator either raises or
\* returns a state.
BenchmarkIterate ==
    /\ pc = "benchmark_loop"
    /\ epoch_index <= Len(heap["state_history"])
    /\ LET state_history == heap["state_history"]
           epoch == Keys(state_history)[epoch_index]
       IN \/ /\ queries' = Append(queries, <<epoch, "raise", 0>>)
             /\ Raise("InterpolationError")
             /\ UNCHANGED <<heap, epoch_index>>
          \/ \E interpolated \in Coordinates :
                /\ queries' = Append(queries, <<epoch, "value", interpolated>>)
                /\ heap' = [heap EXCEPT ![benchmark_difference] =
                               SetItem(@, epoch,
                                       BenchmarkDifference(Get(state_history, epoch),
                                                           interpolated))]
                /\ epoch_index' = epoch_index + 1
                /\ UNCHANGED <<pc, retval, exception>>
    /\ UNCHANGED <<moduleVars, argVars, disk, step, keplerVars,
                   keplerian_solution_difference, benchmark_difference,
                   acceleration_models, propagations, saved>>

\* Line 161; in a writer the result is bound at line 276.
BenchmarkReturn ==
    /\ pc = "benchmark_loop"
    /\ epoch_index > Len(heap["state_history"])
    /\ IF fn \in Writers
       THEN /\ pc' = "writer"
            /\ step' = step + 1
            /\ UNCHANGED <<retval, exception>>
       ELSE /\ Return(DictRef(benchmark_difference))
            /\ UNCHANGED step
    /\ UNCHANGED <<moduleVars, argVars, disk, heap, keplerVars, epoch_index,
                   keplerian_solution_difference, benchmark_difference,
                   acceleration_models, queries, saved>>

\* ----------------------------------------------------------------- writers

AtStep(kinds) ==
    /\ pc = "writer"
    /\ step <= Len(WriterSteps(fn))
    /\ WriterSteps(fn)[step] \in kinds

\* Lines 205-207 and 276-278: the call of the difference function.
WriterComputeDifference ==
    /\ AtStep({"difference"})
    /\ pc' = IF fn = WRITE_ANALYTICAL THEN "kepler_setup" ELSE "benchmark_setup"
    /\ UNCHANGED <<moduleVars, argVars, disk, step, heap, keplerVars, epoch_index,
                   keplerian_solution_difference, benchmark_difference,
                   acceleration_models, queries, saved, retval, exception>>

\* The dict a save2txt call of `kind` is handed as its solution.
Solution(kind) ==
    CASE kind = "numerical_states" -> "state_history"
      [] kind = "keplerian_difference" -> keplerian_solution_difference
      [] kind = "benchmark_difference" -> benchmark_difference
      [] kind = "dependent_variables" -> "dependent_variable_history"

\* One save2txt call (lines 210-223, 228-234, 281-292, 296-300, 335-339,
\* 343-347).  The library writes the file, or raises before it created the
\* file, or raises with the file created and incomplete.
WriterSave ==
    /\ AtStep(FileKinds)
    /\ LET kind == WriterSteps(fn)[step]
           args == SaveArguments(fn, file_output_identifier, kind)
           file == NormalisePath(JoinPath(args.directory, args.filename))
           call == [kind |-> kind, filename |-> args.filename,
                    directory |-> args.directory, file |-> file,
                    solution |-> heap[Solution(kind)]]
       IN /\ kind = "dependent_variables" =>
                HasDependentVariables(heap["dependent_variable_history"])
          /\ \/ /\ saved' = Append(saved, [call EXCEPT !.solution = <<>>] @@
                                          [created |-> FALSE, completed |-> FALSE])
                /\ Raise("OSError")
                /\ UNCHANGED <<disk, step>>
             \/ /\ saved' = Append(saved, [call EXCEPT !.solution = <<>>] @@
                                          [created |-> TRUE, completed |-> FALSE])
                /\ disk' = disk \cup {file}
                /\ Raise("OSError")
                /\ UNCHANGED step
             \/ /\ saved' = Append(saved, call @@
                                          [created |-> TRUE, completed |-> TRUE])
                /\ disk' = disk \cup {file}
                /\ step' = step + 1
                /\ UNCHANGED <<pc, retval, exception>>
    /\ UNCHANGED <<moduleVars, argVars, heap, keplerVars, epoch_index,
                   keplerian_solution_difference, benchmark_difference,
                   acceleration_models, queries>>

\* Lines 227, 295, 342 when the condition is false.
WriterSkipDependentVariables ==
    /\ AtStep({"dependent_variables"})
    /\ ~HasDependentVariables(heap["dependent_variable_history"])
    /\ step' = step + 1
    /\ UNCHANGED <<moduleVars, argVars, disk, pc, heap, keplerVars, epoch_index,
                   keplerian_solution_difference, benchmark_difference,
                   acceleration_models, queries, saved, retval, exception>>

\* Line 236 and the ends of the other two writers.
WriterReturn ==
    /\ pc = "writer"
    /\ step > Len(WriterSteps(fn))
    /\ Return(None)
    /\ UNCHANGED <<moduleVars, argVars, disk, step, heap, keplerVars, epoch_index,
                   keplerian_solution_difference, benchmark_difference,
                   acceleration_models, queries, saved>>

\* ------------------- get_unperturbed_accelerations, get_perturbed_accelerations

\* Lines 442 and 463: the placeholder, or what a student put in its place.
AssignAccelerationModels ==
    /\ pc = "accelerations"
    /\ acceleration_models' \in {Ellipsis, AccelerationModels}
    /\ pc' = "accelerations_return"
    /\ UNCHANGED <<moduleVars, argVars, disk, step, heap, keplerVars, epoch_index,
                   keplerian_solution_difference, benchmark_difference, queries,
                   saved, retval, exception>>

\* Lines 444 and 465.
ReturnAccelerationModels ==
    /\ pc = "accelerations_return"
    /\ Return(acceleration_models)
    /\ UNCHANGED <<moduleVars, argVars, disk, step, heap, keplerVars, epoch_index,
                   keplerian_solution_difference, benchmark_difference,
                   acceleration_models, queries, saved>>

\* -------------------------------------------------------------- the program

Next ==
    \/ ImportModule
    \/ CallKeplerDifference
    \/ CallBenchmarkDifference
    \/ CallWriteAnalytical
    \/ CallWriteBenchmark
    \/ CallWriteResults
    \/ CallAccelerations
    \/ KeplerSetup
    \/ KeplerIterate
    \/ KeplerReturn
    \/ BenchmarkSetup
    \/ BenchmarkIterate
    \/ BenchmarkReturn
    \/ WriterComputeDifference
    \/ WriterSave
    \/ WriterSkipDependentVariables
    \/ WriterReturn
    \/ AssignAccelerationModels
    \/ ReturnAccelerationModels

Spec == Init /\ [][Next]_vars

\* ------------------------------------------------------------------ claims

Ended == pc \in {"returned", "raised"}

\* The save2txt calls of this call that name `<id>_<suffix>.dat` of `kind` in
\* the output directory.
CallsFor(kind) ==
    {i \in DOMAIN saved : saved[i].file = OutputFile(file_output_identifier, kind)}
Written(kind) == \E i \in CallsFor(kind) : saved[i].completed
Created(kind) == \E i \in CallsFor(kind) : saved[i].created

DependentVariablesRecorded == Len(heap["dependent_variable_history"]) > 0

\* C1: in each of the three writers, a call that returns normally has written
\* <id>_dependent_variables.dat if and only if the dependent variable history
\* has at least one entry; with an empty dependent variable history no save of
\* that file is even attempted.
C1_DependentVariablesFileIffRecorded ==
    fn \in Writers =>
        /\ pc = "returned" =>
              (Written("dependent_variables") <=> DependentVariablesRecorded)
        /\ ~DependentVariablesRecorded => CallsFor("dependent_variables") = {}

C1_Witness ==
    /\ fn = WRITE_ANALYTICAL
    /\ pc = "returned"
    /\ DependentVariablesRecorded
    /\ Written("dependent_variables")

\* C2: write_propagation_results_and_analytical_difference_to_file always
\* writes <id>_numerical_states.dat and <id>_keplerian_difference.dat, for
\* every dynamics simulator, an empty state history included (the save
\* routine itself not failing).
C2_TwoFilesAlwaysWritten ==
    (fn = WRITE_ANALYTICAL /\ Ended /\ exception # "OSError") =>
        Written("numerical_states") /\ Written("keplerian_difference")

\* C3: write_propagation_results_and_benchmark_difference_to_file always
\* writes <id>_numerical_states.dat and <id>_benchmark_difference.dat, for
\* every dynamics simulator and interpolator, an interpolator that raises
\* included (the save routine itself not failing).
C3_TwoFilesAlwaysWritten ==
    (fn = WRITE_BENCHMARK /\ Ended /\ exception # "OSError") =>
        Written("numerical_states") /\ Written("benchmark_difference")

ImportCompleted == pc \notin {"import", "import_failed"}

\* C4 as stated: every unset placeholder faults, so with flyby_initial_time,
\* A, B or C unset the import does not complete, and a function whose
\* acceleration_models is unset neither returns normally nor returns the
\* placeholder.
C4_UnsetPlaceholderFaults ==
    /\ Ellipsis \in {flyby_initial_time, A, B, C} => ~ImportCompleted
    /\ acceleration_models = Ellipsis => pc # "returned"
    /\ retval # Ellipsis

\* C4 as amended: an unset A, B or C makes the import raise TypeError, and
\* only that does; an unset flyby_initial_time does not fault and is stored
\* as the first entry of initial_times_per_phase; an unset acceleration_models
\* does not fault either: the function returns the placeholder to its caller.
C4_UnsetPlaceholders ==
    /\ pc # "import" =>
          (pc = "import_failed" <=> Ellipsis \in {A, B, C})
    /\ pc = "import_failed" => exception = "TypeError"
    /\ ImportCompleted =>
          /\ initial_times_per_phase[1] = flyby_initial_time
          /\ IsNumber(orbit_initial_time)
    /\ (fn \in AccelerationFunctions /\ acceleration_models = Ellipsis) =>
          /\ pc # "raised"
          /\ pc = "returned" => retval = Ellipsis

C4_Witness ==
    /\ fn \in AccelerationFunctions
    /\ pc = "returned"
    /\ retval = Ellipsis
    /\ flyby_initial_time = Ellipsis
    /\ initial_times_per_phase[1] = Ellipsis

\* The Kepler difference has been computed completely.
KeplerDone ==
    /\ keplerian_solution_difference # ""
    /\ pc # "kepler_loop"
    /\ exception # "LibraryError"

\* The elapsed time of the i-th entry of history h, from its first entry.
Elapsed(h, i) == h[i][1] - h[1][1]

KeplerExpected(h, mu) ==
    [i \in 1..Len(h) |->
        <<h[i][1],
          keplerian_to_cartesian(
              propagate_kepler_orbit(cartesian_to_keplerian(h[1][2], mu),
                                     Elapsed(h, i), mu), mu) - h[i][2]>>]

\* C5: for a non-empty state history get_difference_wrt_kepler_orbit returns a
\* dict with the keys of state_history, whose value at epoch e is
\* KeplerToCartesian(PropagateKepler(k0, e - t0)) - state_history[e], t0 and k0
\* taken from the first entry; the first entry is propagated over 0, and an
\* epoch smaller than the first key over a negative time.
C5_KeplerDifference ==
    KeplerDone =>
        LET h == input_state_history
        IN /\ Len(h) > 0
           /\ heap[keplerian_solution_difference] =
                  KeplerExpected(h, central_body_gravitational_parameter)
           /\ initial_keplerian_elements =
                  cartesian_to_keplerian(h[1][2], central_body_gravitational_parameter)
           /\ propagations = [i \in 1..Len(h) |-> Elapsed(h, i)]
           /\ propagations[1] = 0
           /\ \A i \in 1..Len(h) : h[i][1] < h[1][1] => propagations[i] < 0

C5_Witness ==
    /\ fn = KEPLER_DIFFERENCE
    /\ pc = "returned"
    /\ retval = DictRef(keplerian_solution_difference)
    /\ Len(input_state_history) = 2
    /\ input_state_history[2][1] < input_state_history[1][1]
    /\ heap[keplerian_solution_difference][2][2] # 0

\* The benchmark difference has been computed completely.
BenchmarkDone ==
    /\ benchmark_difference # ""
    /\ pc # "benchmark_loop"
    /\ exception # "InterpolationError"

\* C6: with an interpolator that does not raise, get_difference_wrt_benchmarks
\* returns a dict with the keys of state_history whose value at epoch e is
\* state_history[e] - interpolate(e); the interpolator is queried once per
\* epoch of state_history, in its order, and at no other epoch; an empty
\* state history gives an empty dict and no query.
C6_BenchmarkDifference ==
    LET h == input_state_history
    IN /\ Len(queries) <= Len(h)
       /\ \A i \in DOMAIN queries : queries[i][1] = h[i][1]
       /\ BenchmarkDone =>
             /\ Len(queries) = Len(h)
             /\ heap[benchmark_difference] =
                    [i \in 1..Len(h) |-> <<h[i][1], h[i][2] - queries[i][3]>>]

C6_Witness ==
    /\ fn = BENCHMARK_DIFFERENCE
    /\ pc = "returned"
    /\ retval = DictRef(benchmark_difference)
    /\ Len(input_state_history) = 2
    /\ input_state_history[2][1] < input_state_history[1][1]
    /\ heap[benchmark_difference][1][2] < 0
    /\ heap[benchmark_difference][2][2] > 0

DifferenceKinds == {"keplerian_difference", "benchmark_difference"}

Rank(kind) ==
    CASE kind = "numerical_states" -> 1
      [] kind \in DifferenceKinds -> 2
      [] kind = "dependent_variables" -> 3

\* C7: a writer saves its files in the order numerical states, difference,
\* dependent variables, each at most once per call; so whenever the difference
\* file of the call exists its numerical-states file exists, and whenever its
\* dependent-variables file exists the earlier files of that writer exist,
\* also after a call that faulted part-way.
C7_FilesInOrder ==
    fn \in Writers =>
        /\ \A i, j \in DOMAIN saved :
              i < j => /\ Rank(saved[i].kind) < Rank(saved[j].kind)
                       /\ saved[i].completed
        /\ \A i \in DOMAIN saved :
              /\ saved[i].file = OutputFile(file_output_identifier, saved[i].kind)
              /\ saved[i].kind = "keplerian_difference" => fn = WRITE_ANALYTICAL
              /\ saved[i].kind = "benchmark_difference" => fn = WRITE_BENCHMARK
        /\ \A kind \in DifferenceKinds :
              Created(kind) => Written("numerical_states")
        /\ Created("dependent_variables") =>
              /\ Written("numerical_states")
              /\ fn = WRITE_ANALYTICAL => Written("keplerian_difference")
              /\ fn = WRITE_BENCHMARK => Written("benchmark_difference")

C7_Witness ==
    /\ fn = WRITE_BENCHMARK
    /\ pc = "raised"
    /\ Len(saved) = 3
    /\ Created("dependent_variables")
    /\ ~Written("dependent_variables")

DifferenceFaults == {"IndexError", "LibraryError", "InterpolationError"}

C9_StateHistoryUnchanged ==
    /\ heap["state_history"] = input_state_history
    /\ keplerian_solution_difference # "state_history"
    /\ benchmark_difference # "state_history"
    /\ retval # DictRef("state_history")
    /\ \A i \in DOMAIN saved :
          (saved[i].kind = "numerical_states" /\ saved[i].completed) =>
              saved[i].solution = input_state_history

C9_Witness ==
    /\ fn = WRITE_ANALYTICAL
    /\ pc = "returned"
    /\ Len(input_state_history) = 2
    /\ Written("numerical_states")
    /\ heap[keplerian_solution_difference] # input_state_history
    /\ \E i \in 1..2 : heap[keplerian_solution_difference][i][2] # 0

\* C10: all three writers hand save2txt the directory output_directory and the
\* bare filename <id>_<suffix>.dat.
C10_SameSaveArguments ==
    \A i \in DOMAIN saved :
        /\ saved[i].directory = output_directory
        /\ saved[i].filename = <<file_output_identifier, Suffix(saved[i].kind)>>

====
